---- MODULE Spec2Model ----
(***************************************************************************)
(* Model of the live-stream relay server (src/unnamed/part_000):           *)
(*   - the transcode session manager: processLiveStream, cleanupStream,    *)
(*     the activeLiveStreams table, the REST and WebSocket handlers that   *)
(*     call them, the ffmpeg end/error callbacks and the SIGTERM handler;  *)
(*   - one discovery attempt, extractLiveStreamUrl, as a sequence of       *)
(*     suspension points with its exit paths.                              *)
(* Node.js runs each handler and each continuation after an await to       *)
(* completion, so every action below is one such run.                      *)
(***************************************************************************)
EXTENDS Integers, Sequences, FiniteSets, Bags, TLC

\* ------------------------------------------------------------------ bounds
MaxTime == 1        \* Date.now() takes the values 0..MaxTime
MaxReqs == 2        \* start requests accepted in one run
MaxStarts == 1      \* streams the client asks for in one run
MaxStops == 1       \* stop requests of the client in flight at once
MaxSockets == 1     \* connections the client's socket goes through

\* ------------------------------------------------------------- URL strings
\* A string is modelled by a sequence of tokens, cut so that every substring the
\* code tests for is a run of whole tokens; Includes is String.includes:
\* pat occurs in s as a contiguous run.
Includes(s, pat) ==
  \E i \in 0..(Len(s) - Len(pat)) : \A j \in 1..Len(pat) : s[i + j] = pat[j]

\* the substrings the code tests for
DecoyMarker == <<"douyin-pc-web", "/", "uuu_">>
LivePath == <<"/", "live", "/">>
StreamPath == <<"/", "stream", "/">>
PlayPath == <<"/", "play", "/">>
Https == <<"http", "s:", "/", "/">>

RealHls == Https \o <<"pull-hls.example.com", "/", "stream", "/", "abc", ".m3u8">>
DecoyMp4 == Https \o <<"cdn.example.com", "/", "douyin-pc-web", "/", "uuu_", "123", ".mp4">>
RealFlv == Https \o <<"pull-flv.example.com", "/", "live", "/", "abc", ".flv">>
PlayMp4 == Https \o <<"cdn.example.com", "/", "play", "/", "v1", ".mp4">>
ApiCall == Https \o <<"live", ".", "douyin.com", "/", "webcast", "/", "enter">>
NoUrl == <<>>
\* a value that is not a string (an object found in page state or in a JSON body)
NonString == <<"[object Object]">>

\* what extractLiveStreamUrl can resolve to: a real stream or the decoy
StreamUrls == {RealHls, DecoyMp4}

\* request bodies: url missing or present
ReqUrls == {NoUrl, Https \o <<"live", ".", "douyin.com", "/", "555">>}

VARIABLES
  ffmpegAvailable,    \* module-level flag set by the startup probe
  now,                \* Date.now()
  activeLiveStreams,  \* Map sessionId -> ffmpeg command (index into procs)
  procs,              \* every ffmpeg command created so far
  outputDir,          \* public/streams exists
  reqs,               \* start requests: in flight or answered
  shuttingDown,       \* SIGTERM received, server.close() called
  exited,             \* process.exit(0) ran
  lastOp,             \* the response of the handler that ran last
  \* one call of extractLiveStreamUrl
  dpc,                \* where the call stands
  douyinUrl,          \* its parameter, reassigned by the validation
  browser,            \* "none", "open" or "closed"
  closes,             \* calls of browser.close()
  streamUrl,          \* the local `let streamUrl`
  liveStreamRequests, \* request URLs with .m3u8 / .flv
  mediaRequests,      \* other media-like request URLs
  seen,               \* requests the page has issued so far
  cdp,                \* the Network.responseReceived listener is installed
  completion,         \* how the try block ended, while finally runs
  diag,               \* debug files written
  outcome,            \* what the caller received
  \* history of the call, read by no step of it
  tried,              \* the strategies whose code has started
  produced,           \* every value assigned to streamUrl, with the strategy
  \* the browser client (src/client/src/App.js) and what travels between the two
  app,                \* the React state of App
  wire,               \* requests, responses and socket events in flight: a bag
  \* concurrent calls of extractLiveStreamUrl and the files they share
  attempts,           \* where each call stands
  debugFiles          \* the call whose page each debug file was written from

svars == <<ffmpegAvailable, now, activeLiveStreams, procs, outputDir, reqs,
           shuttingDown, exited, lastOp>>
dvars == <<dpc, douyinUrl, browser, closes, streamUrl, liveStreamRequests, mediaRequests,
           seen, cdp, completion, diag, outcome, tried, produced>>
cvars == <<app, wire>>
avars == <<attempts, debugFiles>>

\* a session id is <<time, suffix>>: POST /api/start-stream uses
\* Date.now().toString(), the time with no suffix (0)
SessionIds == (0..MaxTime) \X {0}

EmptyTable == [x \in {} |-> 0]
Remove(T, sid) == [x \in DOMAIN T \ {sid} |-> T[x]]
Put(T, sid, p) == [x \in DOMAIN T \cup {sid} |-> IF x = sid THEN p ELSE T[x]]

NoResult == [originalUrl |-> NoUrl, transcodedUrl |-> NoUrl, ffmpegAvailable |-> FALSE,
             error |-> FALSE]
NoOp == [op |-> "none", sid |-> <<0, 0>>, code |-> 0, result |-> NoResult]

\* ------------------------------------------------------ the ffmpeg command
\* ffmpegProcess.kill('SIGTERM'): the signal is sent; a running process dies
\* and fluent-ffmpeg then reports it through the 'error' event.
kill(c) ==
  [c EXCEPT !.signals = @ + 1,
            !.st = IF c.st = "RUNNING" THEN "KILLED" ELSE @,
            !.pending = IF c.st = "RUNNING" THEN "error" ELSE @]

\* ------------------------------------------------------------ cleanupStream
\* cleanupStream without its activeLiveStreams.delete
cleanupStreamNoDelete(T, P, sid) ==
  IF sid \in DOMAIN T
  THEN [tbl |-> T, procs |-> [P EXCEPT ![T[sid]] = kill(@)]]
  ELSE [tbl |-> T, procs |-> P]

\* cleanupStream without its process.kill
cleanupStreamNoKill(T, P, sid) ==
  IF sid \in DOMAIN T
  THEN [tbl |-> Remove(T, sid), procs |-> P]
  ELSE [tbl |-> T, procs |-> P]

cleanupStream(T, P, sid) ==
  IF sid \in DOMAIN T
  THEN [tbl |-> Remove(T, sid), procs |-> [P EXCEPT ![T[sid]] = kill(@)]]
  ELSE [tbl |-> T, procs |-> P]


\* ---------------------------------------------------------- processLiveStream
NewCommand(sid, st) == [sid |-> sid, st |-> st, signals |-> 0, pending |-> "none"]

\* ffmpeg(url)...run(): the process is spawned, or the command reports a
\* failure through its 'error' listener before run() returns (syncError), in
\* which case the listener's cleanupStream(sessionId) runs then and there.
runCommand(sid, T, P, syncError) ==
  IF syncError
  THEN cleanupStream(T, Append(P, NewCommand(sid, "FAILED")), sid)
  ELSE [tbl |-> T, procs |-> Append(P, NewCommand(sid, "RUNNING"))]

\* `${sessionId}`
SidString(sid) ==
  IF sid[2] = 0 THEN <<ToString(sid[1])>> ELSE <<ToString(sid[1]), "-", ToString(sid[2])>>

\* `http://localhost:${PORT}/streams/${sessionId}.mp4`
TranscodedUrl(sid) == <<"http://localhost:PORT", "/streams/">> \o SidString(sid) \o <<".mp4">>

\* processLiveStream without its `if (!ffmpegAvailable)` return
processLiveStreamNoProbeCheck(url, sid, T, P, dir, avail, mkdirThrows, syncError) ==
  IF ~dir /\ mkdirThrows
  THEN [tbl |-> T, procs |-> P, dir |-> dir,
        result |-> [originalUrl |-> url, transcodedUrl |-> NoUrl,
                    ffmpegAvailable |-> FALSE, error |-> TRUE]]
  ELSE LET r == runCommand(sid, T, P, syncError)
       IN [tbl |-> Put(r.tbl, sid, Len(r.procs)), procs |-> r.procs, dir |-> TRUE,
           result |-> [originalUrl |-> url, transcodedUrl |-> TranscodedUrl(sid),
                       ffmpegAvailable |-> TRUE, error |-> FALSE]]

\* processLiveStream(url, sessionId) on table T, commands P, with the
\* output directory present or not (dir), the module flag (avail) and what the
\* environment does: mkdirSync throwing, run() failing before it returns.
processLiveStream(url, sid, T, P, dir, avail, mkdirThrows, syncError) ==
  IF ~avail
  THEN [tbl |-> T, procs |-> P, dir |-> dir,
        result |-> [originalUrl |-> url, transcodedUrl |-> NoUrl,
                    ffmpegAvailable |-> FALSE, error |-> FALSE]]
  ELSE IF ~dir /\ mkdirThrows
  THEN [tbl |-> T, procs |-> P, dir |-> dir,
        result |-> [originalUrl |-> url, transcodedUrl |-> NoUrl,
                    ffmpegAvailable |-> FALSE, error |-> TRUE]]
  ELSE LET r == runCommand(sid, T, P, syncError)
       IN [tbl |-> Put(r.tbl, sid, Len(r.procs)), procs |-> r.procs, dir |-> TRUE,
           result |-> [originalUrl |-> url, transcodedUrl |-> TranscodedUrl(sid),
                       ffmpegAvailable |-> TRUE, error |-> FALSE]]

\* the command most recently created for sid (0: none)
Latest(P, sid) ==
  LET S == {p \in 1..Len(P) : P[p].sid = sid}
  IN IF S = {} THEN 0 ELSE CHOOSE p \in S : \A q \in S : q <= p


\* ------------------------------------------------------------ client state
\* sessionId '' of the client
NoSession == <<>>

\* the useState initial values of App. playbackError, serverError and the two
\* help dialogs are written by the handlers and read only by the render; they
\* are left out. socket is the id of the current connection (0: none yet),
\* which socket.io renews at every reconnection.
AppInit ==
  [loading |-> FALSE,
   originalStreamUrl |-> NoUrl, transcodedStreamUrl |-> NoUrl, activeStreamUrl |-> NoUrl,
   sessionId |-> NoSession, connected |-> FALSE, socket |-> 0,
   streamSource |-> "original", ffmpegAvailable |-> TRUE, isTestVideo |-> FALSE]

\* one HTTP request, HTTP response or socket.io event in flight
Msg(op, sid, code, url, result) ==
  [op |-> op, sid |-> sid, code |-> code, url |-> url, result |-> result]

\* debug-page-content.html and debug-screenshot.png do not exist
NoFiles == [html |-> 0, shot |-> 0]

\* no client is followed, nor concurrent calls
ClientParked ==
  /\ app = AppInit
  /\ wire = EmptyBag
  /\ attempts = <<>>
  /\ debugFiles = NoFiles

\* ------------------------------------------------------------------ server
NoCompletion == [kind |-> "none", url |-> NoUrl, error |-> "none"]

\* no call of extractLiveStreamUrl is followed
DiscoveryParked ==
  /\ dpc = "parked"
  /\ douyinUrl = NoUrl
  /\ browser = "none"
  /\ closes = 0
  /\ streamUrl = NoUrl
  /\ liveStreamRequests = <<>>
  /\ mediaRequests = <<>>
  /\ seen = 0
  /\ cdp = FALSE
  /\ completion = NoCompletion
  /\ diag = {}
  /\ outcome = NoCompletion
  /\ tried = {}
  /\ produced = {}

Response(op, sid, code, result) ==
  [op |-> op, sid |-> sid, code |-> code, result |-> result]

\* a request whose answer was sent
Answered == [sid |-> <<0, 0>>, phase |-> "answered"]

InFlight == {i \in 1..Len(reqs) : reqs[i].phase = "discovering"}

\* the startup probe (spawnSync ffmpeg -version) has run; nothing else has
ServerInit ==
  /\ ffmpegAvailable \in BOOLEAN
  /\ now = 0
  /\ activeLiveStreams = EmptyTable
  /\ procs = <<>>
  /\ outputDir \in BOOLEAN
  /\ reqs = <<>>
  /\ shuttingDown = FALSE
  /\ exited = FALSE
  /\ lastOp = NoOp
  /\ DiscoveryParked

Init ==
  /\ ServerInit
  /\ ClientParked

Tick ==
  /\ ~exited
  /\ now < MaxTime
  /\ now' = now + 1
  /\ UNCHANGED <<ffmpegAvailable, activeLiveStreams, procs, outputDir, reqs,
                 shuttingDown, exited, lastOp, dvars, cvars, avars>>

\* POST /api/start-stream up to its await: the id is taken before discovery
StartStreamAccept(url) ==
  /\ ~exited
  /\ Len(reqs) < MaxReqs
  /\ IF url = NoUrl
     THEN /\ lastOp' = Response("start", <<0, 0>>, 400, NoResult)
          /\ reqs' = reqs
     ELSE /\ reqs' = Append(reqs, [sid |-> <<now, 0>>, phase |-> "discovering"])
          /\ lastOp' = lastOp
  /\ UNCHANGED <<ffmpegAvailable, now, activeLiveStreams, procs, outputDir,
                 shuttingDown, exited>>

StartStreamRequest(url) ==
  /\ StartStreamAccept(url)
  /\ UNCHANGED <<dvars, cvars, avars>>

\* the continuation after `await extractLiveStreamUrl(url)` resolved: the
\* session is started and the answer sent, in one run
StartStreamResume(i, url, mkdirThrows, syncError) ==
  /\ ~exited
  /\ i \in InFlight
  /\
     LET r == processLiveStream(url, reqs[i].sid, activeLiveStreams, procs,
                                outputDir, ffmpegAvailable, mkdirThrows, syncError)
     IN /\ activeLiveStreams' = r.tbl
        /\ procs' = r.procs
        /\ outputDir' = r.dir
        /\ reqs' = [reqs EXCEPT ![i] = Answered]
        /\ lastOp' = Response("start", reqs[i].sid, 200, r.result)
  /\ UNCHANGED <<ffmpegAvailable, now, shuttingDown, exited>>

StartStreamReady(i, url, mkdirThrows, syncError) ==
  /\ StartStreamResume(i, url, mkdirThrows, syncError)
  /\ UNCHANGED <<dvars, cvars, avars>>

\* extractLiveStreamUrl threw: the catch block answers 500
StartStreamCatch(i) ==
  /\ ~exited
  /\ i \in InFlight
  /\ reqs' = [reqs EXCEPT ![i] = Answered]
  /\ lastOp' = Response("start", reqs[i].sid, 500, NoResult)
  /\ UNCHANGED <<ffmpegAvailable, now, activeLiveStreams, procs, outputDir,
                 shuttingDown, exited>>

StartStreamFailed(i) ==
  /\ StartStreamCatch(i)
  /\ UNCHANGED <<dvars, cvars, avars>>

\* POST /api/stop-stream/:sessionId
StopStreamHandler(sid) ==
  /\ ~exited
  /\ LET r == cleanupStream(activeLiveStreams, procs, sid)
     IN /\ IF sid \in DOMAIN activeLiveStreams
           THEN /\ activeLiveStreams' = r.tbl
                /\ procs' = r.procs
                /\ lastOp' = Response("stop", sid, 200, NoResult)
           ELSE /\ lastOp' = Response("stop", sid, 404, NoResult)
                /\ UNCHANGED <<activeLiveStreams, procs>>
  /\ UNCHANGED <<ffmpegAvailable, now, outputDir, reqs, shuttingDown, exited>>

StopStream(sid) ==
  /\ StopStreamHandler(sid)
  /\ UNCHANGED <<dvars, cvars, avars>>

\* GET /api/stream/:sessionId answering by the process instead of the table
StatusQueryByProcess(sid) ==
  /\ ~exited
  /\ lastOp' = Response("status", sid,
                        IF \E p \in 1..Len(procs) : procs[p].sid = sid /\ procs[p].st = "RUNNING"
                        THEN 200 ELSE 404, NoResult)
  /\ UNCHANGED <<ffmpegAvailable, now, activeLiveStreams, procs, outputDir, reqs,
                 shuttingDown, exited, dvars, cvars, avars>>

\* GET /api/stream/:sessionId
StatusQuery(sid) ==
  /\ ~exited
  /\ lastOp' = Response("status", sid,
                        IF sid \in DOMAIN activeLiveStreams THEN 200 ELSE 404, NoResult)
  /\ UNCHANGED <<ffmpegAvailable, now, activeLiveStreams, procs, outputDir, reqs,
                 shuttingDown, exited, dvars, cvars, avars>>

\* the engine: the stream ends, or ffmpeg fails while running
ProcessEnds(p) ==
  /\ procs[p].st = "RUNNING"
  /\ procs' = [procs EXCEPT ![p].st = "ENDED", ![p].pending = "end"]
  /\ UNCHANGED <<ffmpegAvailable, now, activeLiveStreams, outputDir, reqs,
                 shuttingDown, exited, lastOp, dvars, cvars, avars>>

ProcessFails(p) ==
  /\ procs[p].st = "RUNNING"
  /\ procs' = [procs EXCEPT ![p].st = "FAILED", ![p].pending = "error"]
  /\ UNCHANGED <<ffmpegAvailable, now, activeLiveStreams, outputDir, reqs,
                 shuttingDown, exited, lastOp, dvars, cvars, avars>>

\* .on('end') / .on('error') of command p: both call cleanupStream(sessionId)
Callback(p, event) ==
  /\ ~exited
  /\ procs[p].pending = event
  /\ LET r == cleanupStream(activeLiveStreams, [procs EXCEPT ![p].pending = "none"],
                            procs[p].sid)
     IN /\ activeLiveStreams' = r.tbl
        /\ procs' = r.procs
  /\ UNCHANGED <<ffmpegAvailable, now, outputDir, reqs, shuttingDown, exited, lastOp, dvars, cvars, avars>>

OnEnd(p) == Callback(p, "end")

OnError(p) == Callback(p, "error")

\* cleanupStream for every entry of the table, in turn
RECURSIVE CleanupAll(_, _, _)
CleanupAll(T, P, todo) ==
  IF todo = {} THEN [tbl |-> T, procs |-> P]
  ELSE LET sid == CHOOSE x \in todo : TRUE
           r == cleanupStream(T, P, sid)
       IN CleanupAll(r.tbl, r.procs, todo \ {sid})

\* process.on('SIGTERM')
Sigterm ==
  /\ ~exited
  /\ ~shuttingDown
  /\ LET r == CleanupAll(activeLiveStreams, procs, DOMAIN activeLiveStreams)
     IN /\ activeLiveStreams' = r.tbl
        /\ procs' = r.procs
  /\ shuttingDown' = TRUE
  /\ UNCHANGED <<ffmpegAvailable, now, outputDir, reqs, exited, lastOp, dvars, cvars, avars>>

\* the server.close callback: every connection has ended, process.exit(0)
ServerClosed ==
  /\ shuttingDown
  /\ ~exited
  /\ InFlight = {}
  /\ exited' = TRUE
  /\ UNCHANGED <<ffmpegAvailable, now, activeLiveStreams, procs, outputDir, reqs,
                 shuttingDown, lastOp, dvars, cvars, avars>>

Next ==
  \/ Tick
  \/ \E url \in ReqUrls : StartStreamRequest(url)
  \/ \E i \in 1..Len(reqs), u \in StreamUrls, m \in BOOLEAN, e \in BOOLEAN :
       StartStreamReady(i, u, m, e)
  \/ \E i \in 1..Len(reqs) : StartStreamFailed(i)
  \/ \E sid \in SessionIds : StopStream(sid)
  \/ \E p \in 1..Len(procs) : ProcessEnds(p)
  \/ \E p \in 1..Len(procs) : ProcessFails(p)
  \/ \E p \in 1..Len(procs) : OnEnd(p)
  \/ \E p \in 1..Len(procs) : OnError(p)
  \/ Sigterm
  \/ ServerClosed

vars == <<svars, dvars, cvars, avars>>

Spec == Init /\ [][Next]_vars

\* the server that stays up, asked for the status of sessions as well
StatusNext ==
  \/ Tick
  \/ \E url \in ReqUrls : StartStreamRequest(url)
  \/ \E i \in 1..Len(reqs), u \in StreamUrls, m \in BOOLEAN, e \in BOOLEAN :
       StartStreamReady(i, u, m, e)
  \/ \E i \in 1..Len(reqs) : StartStreamFailed(i)
  \/ \E sid \in SessionIds : StopStream(sid)
  \/ \E sid \in SessionIds : StatusQuery(sid)
  \/ \E p \in 1..Len(procs) : ProcessEnds(p)
  \/ \E p \in 1..Len(procs) : ProcessFails(p)
  \/ \E p \in 1..Len(procs) : OnEnd(p)
  \/ \E p \in 1..Len(procs) : OnError(p)

StatusSpec == Init /\ [][StatusNext]_vars

\* the event loop runs a listener whose event has been emitted
FairSpec ==
  Spec /\ WF_vars(\E p \in 1..Len(procs) : OnEnd(p)) /\ WF_vars(\E p \in 1..Len(procs) : OnError(p))


\* ------------------------------------------------- extractLiveStreamUrl
MaxNetReqs == 2     \* requests the page issues during one attempt
BucketBound == 1    \* the N of "the most recent N entries" of a bucket

IsDecoy(url) == Includes(url, DecoyMarker)

\* addresses a caller may pass
Addresses ==
  { <<"live", ".", "example.com", "/", "live", "/", "555">>,
    Https \o <<"live", ".", "douyin.com", "/", "555">>,
    <<"douyin.com", "/", "live", "/", "777">>,
    <<"example.com", "/", "room">>,
    <<"live", "/", "555">> }

Recognized(url) == Includes(url, <<"douyin.com">>) \/ Includes(url, <<"tiktok.com">>)

\* the reassignment of douyinUrl by the validation block
NormalizeAddress(url) ==
  IF ~Recognized(url) /\ ~Includes(url, <<"http">>) THEN Https \o url ELSE url

\* the validation block throws
AddressRejected(url) == ~Recognized(url) /\ ~Includes(NormalizeAddress(url), LivePath)

\* douyinUrl.match(/\/live\/([^/?]+)/) finds a room id
HasRoomId(url) ==
  \E i \in 0..(Len(url) - 4) :
    /\ \A j \in 1..3 : url[i + j] = LivePath[j]
    /\ url[i + 4] \notin {"/", "?"}

\* what the page may request, and what the strategies may come back with
NetUrls == {RealHls, RealFlv, PlayMp4, DecoyMp4, ApiCall}
\* what the page holds where DOM extraction looks: the media elements'
\* src / dataset.src / currentSrc, a player-config path, roomInfo of a page
\* global, a live-key field (or a nested string), the inline scripts
PageValues == {NoUrl, RealHls, DecoyMp4, NonString}
Pages == [hasVideo : BOOLEAN, src : {NoUrl, RealHls, DecoyMp4}, config : PageValues,
          roomInfo : PageValues, liveKey : PageValues, script : {NoUrl, RealHls, DecoyMp4}]

\* typeof v === 'string' on a value that is present
IsString(v) == v \notin {NoUrl, NonString}

\* the value the DOM step assigns to streamUrl on page pg
DomValue(pg) ==
  IF ~pg.hasVideo THEN NoUrl
  ELSE IF pg.src # NoUrl /\ ~IsDecoy(pg.src) THEN pg.src
  ELSE IF IsString(pg.config) /\ Includes(pg.config, <<"http">>) /\ ~IsDecoy(pg.config)
  THEN pg.config
  ELSE IF pg.roomInfo # NoUrl THEN pg.roomInfo
  ELSE IF IsString(pg.liveKey) /\ ~IsDecoy(pg.liveKey) THEN pg.liveKey
  ELSE IF pg.script # NoUrl /\ ~IsDecoy(pg.script) THEN pg.script
  ELSE NoUrl

DomResults == {DomValue(pg) : pg \in Pages}
ScriptResults == {NoUrl, RealFlv, DecoyMp4}
\* what the in-page fetch resolves to: {error} when it failed, else a body
\* with or without data.room, whose stream_url may hold flv_url and hls_url
Responses == [error : BOOLEAN, room : BOOLEAN,
              flv_url : {NoUrl, RealFlv, DecoyMp4, NonString}, hls_url : {NoUrl, RealHls}]

\* the value the API step takes from a response (NoUrl: none)
ApiValue(resp) ==
  IF resp.error \/ ~resp.room THEN NoUrl
  ELSE IF resp.flv_url # NoUrl THEN resp.flv_url
  ELSE resp.hls_url

ApiResults == {ApiValue(resp) : resp \in Responses}
CdpResults == {RealFlv}

\* values of dpc at which the function is suspended in an await with the page
\* live; at the others the next step continues synchronously, so no listener
\* can run first
Awaiting == {"goto", "simulate", "click", "settle", "dom", "cdpwait", "script_eval",
             "api_fetch", "diag_html", "diag_shot"}

Returned(url) == [kind |-> "return", url |-> url, error |-> "none"]
Thrown(e) == [kind |-> "throw", url |-> NoUrl, error |-> e]

\* POST /api/start-stream has just called extractLiveStreamUrl(address)
DiscoveryInit ==
  /\ dpc = "validate"
  /\ douyinUrl \in Addresses
  /\ browser = "none"
  /\ closes = 0
  /\ streamUrl = NoUrl
  /\ liveStreamRequests = <<>>
  /\ mediaRequests = <<>>
  /\ seen = 0
  /\ cdp = FALSE
  /\ completion = NoCompletion
  /\ diag = {}
  /\ outcome = NoCompletion
  /\ tried = {}
  /\ produced = {}
  /\ ffmpegAvailable \in BOOLEAN
  /\ now = 0
  /\ activeLiveStreams = EmptyTable
  /\ procs = <<>>
  /\ outputDir = FALSE
  /\ reqs = <<[sid |-> <<0, 0>>, phase |-> "discovering"]>>
  /\ shuttingDown = FALSE
  /\ exited = FALSE
  /\ lastOp = NoOp
  /\ app = [AppInit EXCEPT !.loading = TRUE]
  /\ wire = EmptyBag
  /\ attempts = <<>>
  /\ debugFiles = NoFiles

\* the history after strategy src assigned u to streamUrl (null is no candidate)
Yield(src, u) ==
  IF u = NoUrl THEN produced ELSE produced \cup {[src |-> src, url |-> u]}

\* an exception inside the try block: catch rethrows, finally runs next
Throw(e) ==
  /\ completion' = Thrown(e)
  /\ dpc' = "finally"

\* the validation block
Validate ==
  /\ dpc = "validate"
  /\ IF AddressRejected(douyinUrl)
     THEN /\ outcome' = Thrown("InvalidAddress")
          /\ dpc' = "done"
     ELSE /\ outcome' = outcome
          /\ dpc' = "launch"
  /\ douyinUrl' = NormalizeAddress(douyinUrl)
  /\ UNCHANGED <<browser, closes, streamUrl, liveStreamRequests, mediaRequests, seen, cdp,
                 completion, diag, tried, produced, svars, cvars, avars>>

\* await puppeteer.launch(...), outside the try block
Launch(fails) ==
  /\ dpc = "launch"
  /\ IF fails
     THEN /\ outcome' = Thrown("LaunchFailed")
          /\ dpc' = "done"
          /\ browser' = browser
     ELSE /\ outcome' = outcome
          /\ dpc' = "setup"
          /\ browser' = "open"
  /\ UNCHANGED <<douyinUrl, closes, streamUrl, liveStreamRequests, mediaRequests, seen, cdp,
                 completion, diag, tried, produced, svars, cvars, avars>>

\* context, page, instrumentation, request listeners, cookie
Setup(throws) ==
  /\ dpc = "setup"
  /\ IF throws THEN Throw("SetupFailed")
     ELSE dpc' = "goto" /\ completion' = completion
  /\ UNCHANGED <<douyinUrl, browser, closes, streamUrl, liveStreamRequests, mediaRequests,
                 seen, cdp, diag, outcome, tried, produced, svars, cvars, avars>>

\* the outer test of the request listener
MediaLike(url) ==
  \E f \in {<<".m3u8">>, <<".flv">>, <<".mp4">>, StreamPath, LivePath, PlayPath} :
    Includes(url, f)

\* the explicit streaming file extensions
HasStreamExtension(url) == Includes(url, <<".m3u8">>) \/ Includes(url, <<".flv">>)

\* the request listener's sorting with the test-video exclusion left out
BucketKeepDecoy(url) ==
  IF MediaLike(url)
  THEN IF HasStreamExtension(url) THEN "live" ELSE "media"
  ELSE "none"

\* where the request listener puts a URL
Bucket(url) ==
  IF MediaLike(url) /\ ~IsDecoy(url)
  THEN IF HasStreamExtension(url) THEN "live" ELSE "media"
  ELSE "none"

\* page.on('request') bookkeeping: one request of the page is observed
OnRequest(url) ==
  /\ browser = "open"
  /\ dpc \in Awaiting
  /\ seen < MaxNetReqs
  /\ seen' = seen + 1
  /\ liveStreamRequests' = IF Bucket(url) = "live" THEN Append(liveStreamRequests, url)
                            ELSE liveStreamRequests
  /\ mediaRequests' = IF Bucket(url) = "media" THEN Append(mediaRequests, url)
                       ELSE mediaRequests
  /\ UNCHANGED <<dpc, douyinUrl, browser, closes, streamUrl, cdp, completion, diag, outcome,
                 tried, produced, svars, cvars, avars>>

\* page.goto whose timeout is swallowed
GotoSwallow(timeout) ==
  /\ dpc = "goto"
  /\ dpc' = "simulate"
  /\ UNCHANGED <<douyinUrl, browser, closes, streamUrl, liveStreamRequests, mediaRequests,
                 seen, cdp, completion, diag, outcome, tried, produced, svars, cvars, avars>>

\* await page.goto(douyinUrl, {timeout: 60000})
Goto(timeout) ==
  /\ dpc = "goto"
  /\ IF timeout THEN Throw("NavigationTimeout")
     ELSE dpc' = "simulate" /\ completion' = completion
  /\ UNCHANGED <<douyinUrl, browser, closes, streamUrl, liveStreamRequests, mediaRequests,
                 seen, cdp, diag, outcome, tried, produced, svars, cvars, avars>>

\* simulateHumanBehavior(), scroll, mouse move, 8 s wait
Simulate(throws) ==
  /\ dpc = "simulate"
  /\ IF throws THEN Throw("PageError")
     ELSE dpc' = "click" /\ completion' = completion
  /\ UNCHANGED <<douyinUrl, browser, closes, streamUrl, liveStreamRequests, mediaRequests,
                 seen, cdp, diag, outcome, tried, produced, svars, cvars, avars>>

\* clicking consent / play controls, in its own try-catch
Click ==
  /\ dpc = "click"
  /\ dpc' = "settle"
  /\ UNCHANGED <<douyinUrl, browser, closes, streamUrl, liveStreamRequests, mediaRequests,
                 seen, cdp, completion, diag, outcome, tried, produced, svars, cvars, avars>>

\* 10 s wait, simulateHumanBehavior() again
Settle(throws) ==
  /\ dpc = "settle"
  /\ IF throws THEN Throw("PageError")
     ELSE dpc' = "dom" /\ completion' = completion
  /\ UNCHANGED <<douyinUrl, browser, closes, streamUrl, liveStreamRequests, mediaRequests,
                 seen, cdp, diag, outcome, tried, produced, svars, cvars, avars>>

\* DOM extraction in its try-catch: found is what page.evaluate resolves to;
\* when an evaluation throws, streamUrl is left as it was
DomExtract(found, throws) ==
  /\ dpc = "dom"
  /\ streamUrl' = IF throws THEN streamUrl ELSE found
  /\ dpc' = "network"
  /\ tried' = tried \cup {"dom"}
  /\ produced' = IF throws THEN produced ELSE Yield("dom", found)
  /\ UNCHANGED <<douyinUrl, browser, closes, liveStreamRequests, mediaRequests, seen, cdp,
                 completion, diag, outcome, svars, cvars, avars>>

\* the oldest entry of a bucket
FirstOf(q) == q[1]

\* q[q.length - 1]
LastOf(q) == q[Len(q)]

\* the else branch after DOM extraction: the buckets, else the CDP session;
\* streamUrl.includes is a TypeError when DOM extraction returned an object
NetworkFallback(cdpThrows) ==
  /\ dpc = "network"
  /\ IF streamUrl = NonString
     THEN /\ Throw("TypeError")
          /\ UNCHANGED <<streamUrl, cdp, tried, produced>>
     ELSE IF streamUrl # NoUrl /\ ~IsDecoy(streamUrl)
     THEN /\ dpc' = "script"
          /\ UNCHANGED <<streamUrl, cdp, completion, tried, produced>>
     ELSE IF Len(liveStreamRequests) > 0
     THEN /\ streamUrl' = LastOf(liveStreamRequests)
          /\ dpc' = "script"
          /\ tried' = tried \cup {"buckets"}
          /\ produced' = Yield("buckets", streamUrl')
          /\ UNCHANGED <<cdp, completion>>
     ELSE IF Len(mediaRequests) > 0
     THEN /\ streamUrl' = LastOf(mediaRequests)
          /\ dpc' = "script"
          /\ tried' = tried \cup {"buckets"}
          /\ produced' = Yield("buckets", streamUrl')
          /\ UNCHANGED <<cdp, completion>>
     ELSE IF cdpThrows
     THEN /\ Throw("CdpFailed")
          /\ tried' = tried \cup {"buckets", "cdp"}
          /\ UNCHANGED <<streamUrl, cdp, produced>>
     ELSE /\ cdp' = TRUE
          /\ dpc' = "cdpwait"
          /\ tried' = tried \cup {"buckets", "cdp"}
          /\ UNCHANGED <<streamUrl, completion, produced>>
  /\ UNCHANGED <<douyinUrl, browser, closes, liveStreamRequests, mediaRequests, seen, diag,
                 outcome, svars, cvars, avars>>

\* the Network.responseReceived listener found a media URL in a JSON body
CdpResponse(found) ==
  /\ cdp
  /\ browser = "open"
  /\ dpc \in Awaiting
  /\ streamUrl # found
  /\ streamUrl' = found
  /\ produced' = Yield("cdp", found)
  /\ UNCHANGED <<dpc, douyinUrl, browser, closes, liveStreamRequests, mediaRequests, seen,
                 cdp, completion, diag, outcome, tried, svars, cvars, avars>>

\* await page.waitForTimeout(15000)
CdpWait(throws) ==
  /\ dpc = "cdpwait"
  /\ IF throws THEN Throw("PageError")
     ELSE dpc' = "script" /\ completion' = completion
  /\ UNCHANGED <<douyinUrl, browser, closes, streamUrl, liveStreamRequests, mediaRequests,
                 seen, cdp, diag, outcome, tried, produced, svars, cvars, avars>>

\* the guard of the custom script testing only for a missing streamUrl
ScriptCheckNullOnly ==
  /\ dpc = "script"
  /\ dpc' = IF streamUrl = NoUrl THEN "script_eval" ELSE "api"
  /\ tried' = IF streamUrl = NoUrl THEN tried \cup {"script"} ELSE tried
  /\ UNCHANGED <<douyinUrl, browser, closes, streamUrl, liveStreamRequests, mediaRequests,
                 seen, cdp, completion, diag, outcome, produced, svars, cvars, avars>>

\* if (!streamUrl || decoy) before the custom script
ScriptCheck ==
  /\ dpc = "script"
  /\ dpc' = IF streamUrl = NoUrl \/ IsDecoy(streamUrl) THEN "script_eval" ELSE "api"
  /\ tried' = IF streamUrl = NoUrl \/ IsDecoy(streamUrl) THEN tried \cup {"script"} ELSE tried
  /\ UNCHANGED <<douyinUrl, browser, closes, streamUrl, liveStreamRequests, mediaRequests,
                 seen, cdp, completion, diag, outcome, produced, svars, cvars, avars>>

\* the custom script resolved (or threw, which is swallowed)
ScriptMining(found, throws) ==
  /\ dpc = "script_eval"
  /\ streamUrl' = IF ~throws /\ found # NoUrl /\ ~IsDecoy(found) THEN found ELSE streamUrl
  /\ dpc' = "api"
  /\ produced' = IF ~throws /\ ~IsDecoy(found) THEN Yield("script", found) ELSE produced
  /\ UNCHANGED <<douyinUrl, browser, closes, liveStreamRequests, mediaRequests, seen, cdp,
                 completion, diag, outcome, tried, svars, cvars, avars>>

\* the API query without its guard on streamUrl
ApiCheckAlways ==
  /\ dpc = "api"
  /\ dpc' = IF HasRoomId(douyinUrl) THEN "api_fetch" ELSE "decide"
  /\ tried' = tried \cup {"api"}
  /\ UNCHANGED <<douyinUrl, browser, closes, streamUrl, liveStreamRequests, mediaRequests,
                 seen, cdp, completion, diag, outcome, produced, svars, cvars, avars>>

\* if (!streamUrl || decoy) before the API query; no room id: nothing to await
ApiCheck ==
  /\ dpc = "api"
  /\ dpc' = IF (streamUrl = NoUrl \/ IsDecoy(streamUrl)) /\ HasRoomId(douyinUrl)
            THEN "api_fetch" ELSE "decide"
  /\ tried' = IF streamUrl = NoUrl \/ IsDecoy(streamUrl) THEN tried \cup {"api"} ELSE tried
  /\ UNCHANGED <<douyinUrl, browser, closes, streamUrl, liveStreamRequests, mediaRequests,
                 seen, cdp, completion, diag, outcome, produced, svars, cvars, avars>>

\* the API step assigning whatever came back, also nothing
ApiQueryOverwrite(found, throws) ==
  /\ dpc = "api_fetch"
  /\ streamUrl' = found
  /\ dpc' = "decide"
  /\ produced' = Yield("api", found)
  /\ UNCHANGED <<douyinUrl, browser, closes, liveStreamRequests, mediaRequests, seen, cdp,
                 completion, diag, outcome, tried, svars, cvars, avars>>

\* cookies and in-page fetch resolved: found is flv_url, else hls_url, else
\* nothing; an exception is swallowed
ApiQuery(found, throws) ==
  /\ dpc = "api_fetch"
  /\ streamUrl' = IF ~throws /\ found # NoUrl THEN found ELSE streamUrl
  /\ dpc' = "decide"
  /\ produced' = IF throws THEN produced ELSE Yield("api", found)
  /\ UNCHANGED <<douyinUrl, browser, closes, liveStreamRequests, mediaRequests, seen, cdp,
                 completion, diag, outcome, tried, svars, cvars, avars>>

\* if (!streamUrl || decoy): debug capture, else return streamUrl;
\* streamUrl.includes is a TypeError when the API field was an object
Decide ==
  /\ dpc = "decide"
  /\ IF streamUrl = NonString
     THEN Throw("TypeError")
     ELSE IF streamUrl = NoUrl \/ IsDecoy(streamUrl)
     THEN dpc' = "diag_html" /\ completion' = completion
     ELSE dpc' = "finally" /\ completion' = Returned(streamUrl)
  /\ UNCHANGED <<douyinUrl, browser, closes, streamUrl, liveStreamRequests, mediaRequests,
                 seen, cdp, diag, outcome, tried, produced, svars, cvars, avars>>

\* await page.content(); writeFileSync('debug-page-content.html')
DiagHtml(throws) ==
  /\ dpc = "diag_html"
  /\ IF throws THEN Throw("PageError") /\ diag' = diag
     ELSE dpc' = "diag_shot" /\ completion' = completion /\ diag' = diag \cup {"html"}
  /\ UNCHANGED <<douyinUrl, browser, closes, streamUrl, liveStreamRequests, mediaRequests,
                 seen, cdp, outcome, tried, produced, svars, cvars, avars>>

\* await page.screenshot(...), then return the decoy or throw
DiagShot(throws) ==
  /\ dpc = "diag_shot"
  /\ IF throws THEN Throw("PageError") /\ diag' = diag
     ELSE /\ diag' = diag \cup {"shot"}
          /\ dpc' = "finally"
          /\ completion' = IF streamUrl # NoUrl /\ IsDecoy(streamUrl)
                           THEN Returned(streamUrl) ELSE Thrown("Exhausted")
  /\ UNCHANGED <<douyinUrl, browser, closes, streamUrl, liveStreamRequests, mediaRequests,
                 seen, cdp, outcome, tried, produced, svars, cvars, avars>>

\* the function's exit without its finally block
FinallyNoClose ==
  /\ dpc = "finally"
  /\ outcome' = completion
  /\ dpc' = "done"
  /\ UNCHANGED <<douyinUrl, browser, closes, streamUrl, liveStreamRequests, mediaRequests,
                 seen, cdp, completion, diag, tried, produced, svars, cvars, avars>>

\* finally { await browser.close() }, then the caller resumes
Finally ==
  /\ dpc = "finally"
  /\ browser' = "closed"
  /\ closes' = closes + 1
  /\ outcome' = completion
  /\ dpc' = "done"
  /\ UNCHANGED <<douyinUrl, streamUrl, liveStreamRequests, mediaRequests, seen, cdp,
                 completion, diag, tried, produced, svars, cvars, avars>>

\* a page operation that takes no timeout never settles
HangPoints == {"simulate", "click", "settle", "dom", "script_eval", "api_fetch",
               "diag_html", "diag_shot"}

Hang ==
  /\ dpc \in HangPoints
  /\ dpc' = "hung"
  /\ UNCHANGED <<douyinUrl, browser, closes, streamUrl, liveStreamRequests, mediaRequests,
                 seen, cdp, completion, diag, outcome, tried, produced, svars, cvars, avars>>

\* ------------------------------------------------------------------ client
\* src/client/src/App.js. A handler of the client is one run, like a handler
\* of the server; what it sends is in flight until the other side takes it.

\* message m joins, or leaves, what is in flight
Send(w, m) == w (+) SetToBag({m})
Take(w, m) == w (-) SetToBag({m})

\* the messages in flight whose kind is in ops
InFlightOf(ops) == [m \in {x \in BagToSet(wire) : x.op \in ops} |-> wire[m]]

\* what the user may type into the search box
ClientUrls ==
  {NoUrl, <<"live", ".", "douyin.com", "/", "555">>, <<"example.com", "/", "room">>}

\* the client's own check of the address, before anything is sent
ClientNormalize(url) ==
  IF ~Recognized(url) /\ ~Includes(url, <<"http">>) THEN Https \o url ELSE url

ClientRejects(url) ==
  ~Recognized(url) /\ ~Includes(ClientNormalize(url), LivePath)

\* the payload of a stream-ready event or of a start response
Data(m) ==
  [streamUrl |-> m.result.originalUrl, transcodedUrl |-> m.result.transcodedUrl,
   sessionId |-> m.sid, ffmpegAvailable |-> m.result.ffmpegAvailable]

\* isTestUrl
IsTestUrl(u) == u # NoUrl /\ IsString(u) /\ Includes(u, DecoyMarker)

\* the same updates without setIsTestVideo(isTestUrl)
ReadyNoFlag(a, data) ==
  [a EXCEPT !.loading = FALSE,
            !.originalStreamUrl = data.streamUrl,
            !.transcodedStreamUrl = data.transcodedUrl,
            !.sessionId = data.sessionId,
            !.ffmpegAvailable = data.ffmpegAvailable,
            !.streamSource = "original",
            !.activeStreamUrl = data.streamUrl]

\* the state updates of the stream-ready handler; the continuation of the REST
\* start makes the same ones
Ready(a, data) ==
  [a EXCEPT !.isTestVideo = IsTestUrl(data.streamUrl),
            !.loading = FALSE,
            !.originalStreamUrl = data.streamUrl,
            !.transcodedStreamUrl = data.transcodedUrl,
            !.sessionId = data.sessionId,
            !.ffmpegAvailable = data.ffmpegAvailable,
            !.streamSource = "original",
            !.activeStreamUrl = data.streamUrl]

\* start requests the client has sent and the server has not yet taken
StartsInFlight == BagCardinality(InFlightOf({"start", "join-stream"}))

\* stop requests of the client not yet settled
StopsInFlight == BagCardinality(InFlightOf({"stop", "stopped"}))

\* socket.on('connect')
OnConnect ==
  /\ ~app.connected
  /\ app.socket < MaxSockets
  /\ app' = [app EXCEPT !.connected = TRUE, !.socket = @ + 1]
  /\ UNCHANGED <<wire, svars, dvars, avars>>

\* The connection drops: socket.on('disconnect') of the client runs, the
\* events on their way to the client are lost, and the server will hear of it.
OnDisconnect ==
  /\ app.connected
  /\ app' = [app EXCEPT !.connected = FALSE]
  /\ wire' = Send(InFlightOf({"start", "join-stream", "started", "stop", "stopped",
                              "disconnect"}),
                  Msg("disconnect", <<0, app.socket>>, 0, NoUrl, NoResult))
  /\ UNCHANGED <<svars, dvars, avars>>

\* startStream(url), up to the emit or to the await of axios.post
startStream(url) ==
  /\ Len(reqs) + StartsInFlight < MaxStarts
  /\ app' = [app EXCEPT !.isTestVideo = FALSE,
                        !.loading = ~(url = NoUrl \/ ClientRejects(url))]
  /\ wire' = IF url = NoUrl \/ ClientRejects(url) THEN wire
             ELSE IF app.connected
             THEN Send(wire, Msg("join-stream", <<0, app.socket>>, 0,
                                 ClientNormalize(url), NoResult))
             ELSE Send(wire, Msg("start", <<0, 0>>, 0, ClientNormalize(url), NoResult))
  /\ UNCHANGED <<svars, dvars, avars>>

\* socket.on('stream-ready')
OnStreamReady(k) ==
  /\ k.op = "stream-ready"
  /\ app' = Ready(app, Data(k))
  /\ wire' = Take(wire, k)
  /\ UNCHANGED <<svars, dvars, avars>>

\* socket.on('error'): a message and setLoading(false)
OnSocketError(k) ==
  /\ k.op = "error"
  /\ app' = [app EXCEPT !.loading = FALSE]
  /\ wire' = Take(wire, k)
  /\ UNCHANGED <<svars, dvars, avars>>

\* startStream after `await axios.post(.../api/start-stream)`: a 500 answer
\* rejects the promise and the catch block only reports it
startStreamSettled(k) ==
  /\ k.op = "started"
  /\ app' = IF k.code = 200 THEN Ready(app, Data(k)) ELSE [app EXCEPT !.loading = FALSE]
  /\ wire' = Take(wire, k)
  /\ UNCHANGED <<svars, dvars, avars>>

\* handleSourceChange, the onChange of the radio group, which is rendered
\* once a stream URL is known
handleSourceChangeNoGuard(v) ==
  /\ app.originalStreamUrl # NoUrl \/ app.transcodedStreamUrl # NoUrl
  /\ app' = [app EXCEPT !.streamSource = v,
                        !.activeStreamUrl =
                           IF v = "original" /\ app.originalStreamUrl # NoUrl
                           THEN app.originalStreamUrl
                           ELSE IF v = "transcoded" /\ app.transcodedStreamUrl # NoUrl
                           THEN app.transcodedStreamUrl
                           ELSE @]
  /\ UNCHANGED <<wire, svars, dvars, avars>>

handleSourceChange(v) ==
  IF ~app.ffmpegAvailable /\ v = "transcoded"
  THEN /\ app.originalStreamUrl # NoUrl \/ app.transcodedStreamUrl # NoUrl
       /\ UNCHANGED vars
  ELSE handleSourceChangeNoGuard(v)

\* handlePlayerError, the onError of the player, which is rendered while
\* activeStreamUrl is set
handlePlayerError ==
  /\ app.activeStreamUrl # NoUrl
  /\ app' = IF /\ app.streamSource = "original"
               /\ app.transcodedStreamUrl # NoUrl
               /\ app.ffmpegAvailable
            THEN [app EXCEPT !.streamSource = "transcoded",
                             !.activeStreamUrl = app.transcodedStreamUrl]
            ELSE app
  /\ UNCHANGED <<wire, svars, dvars, avars>>

\* the stream state of the client is empty
Cleared(a) ==
  /\ a.activeStreamUrl = NoUrl
  /\ a.originalStreamUrl = NoUrl
  /\ a.transcodedStreamUrl = NoUrl
  /\ a.sessionId = NoSession

\* stopStream, the onClick of the stop button (enabled while activeStreamUrl
\* is set), up to its return or to the await of axios.post
stopStream ==
  /\ app.activeStreamUrl # NoUrl
  /\ StopsInFlight < MaxStops
  /\ IF app.sessionId = NoSession
     THEN /\ app' = [app EXCEPT !.originalStreamUrl = NoUrl,
                                !.transcodedStreamUrl = NoUrl,
                                !.activeStreamUrl = NoUrl]
          /\ wire' = wire
     ELSE /\ app' = app
          /\ wire' = Send(wire, Msg("stop", app.sessionId, 0, NoUrl, NoResult))
  /\ UNCHANGED <<svars, dvars, avars>>

\* stopStream after the await: the state is reset when the promise resolved;
\* a 404 answer rejects it and the catch block only reports the failure
stopStreamSettled(k) ==
  /\ k.op = "stopped"
  /\ app' = IF k.code = 200
            THEN [app EXCEPT !.originalStreamUrl = NoUrl,
                             !.transcodedStreamUrl = NoUrl,
                             !.activeStreamUrl = NoUrl,
                             !.sessionId = NoSession,
                             !.isTestVideo = FALSE]
            ELSE app
  /\ wire' = Take(wire, k)
  /\ UNCHANGED <<svars, dvars, avars>>

\* ------------------------------------------------- the server, with a client
\* the continuation of POST /api/start-stream, its answer on the way
StartStreamAnswer(i, url, mkdirThrows, syncError) ==
  /\ reqs[i].sid[2] = 0
  /\ StartStreamResume(i, url, mkdirThrows, syncError)
  /\ wire' = Send(wire, Msg("started", lastOp'.sid, 200, NoUrl, lastOp'.result))
  /\ UNCHANGED <<dvars, app, avars>>

StartStreamRefuse(i) ==
  /\ reqs[i].sid[2] = 0
  /\ StartStreamCatch(i)
  /\ wire' = Send(wire, Msg("started", lastOp'.sid, 500, NoUrl, NoResult))
  /\ UNCHANGED <<dvars, app, avars>>

\* the REST start request arrives
StartStreamArrives(k) ==
  /\ k.op = "start"
  /\ StartStreamAccept(k.url)
  /\ wire' = Take(wire, k)
  /\ UNCHANGED <<dvars, app, avars>>

\* socket.on('disconnect') of the server: a log line
OnSocketDisconnect(k) ==
  /\ k.op = "disconnect"
  /\ wire' = Take(wire, k)
  /\ UNCHANGED <<svars, dvars, app, avars>>

\* socket.emit: the event travels if the socket is still the client's connection
Emit(sock, m) == IF app.connected /\ app.socket = sock THEN Send(wire, m) ELSE wire

\* socket.on('join-stream') up to its await. The client never sends an empty
\* url. The request is remembered with the socket it came from: the session id
\* is made after discovery.
JoinStream(k) ==
  /\ k.op = "join-stream"
  /\ ~exited
  /\ reqs' = Append(reqs, [sid |-> k.sid, phase |-> "discovering"])
  /\ wire' = Take(wire, k)
  /\ UNCHANGED <<ffmpegAvailable, now, activeLiveStreams, procs, outputDir,
                 shuttingDown, exited, lastOp, dvars, app, avars>>

\* the continuation after `await extractLiveStreamUrl(url)` resolved
JoinStreamResume(i, url, mkdirThrows, syncError) ==
  /\ ~exited
  /\ i \in InFlight
  /\ reqs[i].sid[2] # 0
  /\ LET sessionId == <<now, reqs[i].sid[2]>>
         r == processLiveStream(url, sessionId, activeLiveStreams, procs,
                                outputDir, ffmpegAvailable, mkdirThrows, syncError)
     IN /\ activeLiveStreams' = r.tbl
        /\ procs' = r.procs
        /\ outputDir' = r.dir
        /\ reqs' = [reqs EXCEPT ![i] = Answered]
        /\ wire' = Emit(reqs[i].sid[2], Msg("stream-ready", sessionId, 200, NoUrl, r.result))
  /\ UNCHANGED <<ffmpegAvailable, now, shuttingDown, exited, lastOp, dvars, app, avars>>

\* extractLiveStreamUrl threw: the catch block emits 'error'
JoinStreamCatch(i) ==
  /\ ~exited
  /\ i \in InFlight
  /\ reqs[i].sid[2] # 0
  /\ reqs' = [reqs EXCEPT ![i] = Answered]
  /\ wire' = Emit(reqs[i].sid[2], Msg("error", <<0, 0>>, 500, NoUrl, NoResult))
  /\ UNCHANGED <<ffmpegAvailable, now, activeLiveStreams, procs, outputDir,
                 shuttingDown, exited, lastOp, dvars, app, avars>>

\* the stop request arrives, the answer leaves
StopStreamArrives(k) ==
  /\ k.op = "stop"
  /\ StopStreamHandler(k.sid)
  /\ wire' = Send(Take(wire, k), Msg("stopped", k.sid, lastOp'.code, NoUrl, NoResult))
  /\ UNCHANGED <<dvars, app, avars>>

\* the handler's continuation after `await extractLiveStreamUrl(url)`
DiscoveryResolved(mkdirThrows, syncError) ==
  /\ dpc = "done"
  /\ outcome.kind = "return"
  /\ StartStreamAnswer(1, outcome.url, mkdirThrows, syncError)

DiscoveryRejected ==
  /\ dpc = "done"
  /\ outcome.kind = "throw"
  /\ StartStreamRefuse(1)

DiscoveryNext ==
  \/ Validate
  \/ \E f \in BOOLEAN : Launch(f)
  \/ \E t \in BOOLEAN : Setup(t)
  \/ \E u \in NetUrls : OnRequest(u)
  \/ \E t \in BOOLEAN : Goto(t)
  \/ \E t \in BOOLEAN : Simulate(t)
  \/ Click
  \/ \E t \in BOOLEAN : Settle(t)
  \/ \E u \in DomResults, t \in BOOLEAN : DomExtract(u, t)
  \/ \E t \in BOOLEAN : NetworkFallback(t)
  \/ \E u \in CdpResults : CdpResponse(u)
  \/ \E t \in BOOLEAN : CdpWait(t)
  \/ ScriptCheck
  \/ \E u \in ScriptResults, t \in BOOLEAN : ScriptMining(u, t)
  \/ ApiCheck
  \/ \E u \in ApiResults, t \in BOOLEAN : ApiQuery(u, t)
  \/ Decide
  \/ \E t \in BOOLEAN : DiagHtml(t)
  \/ \E t \in BOOLEAN : DiagShot(t)
  \/ Finally
  \/ Hang
  \/ \E m \in BOOLEAN, e \in BOOLEAN : DiscoveryResolved(m, e)
  \/ DiscoveryRejected
  \/ \E k \in BagToSet(wire) : startStreamSettled(k)

DiscoverySpec == DiscoveryInit /\ [][DiscoveryNext]_vars

\* the event loop runs every continuation that is ready
DiscoveryFairSpec == DiscoverySpec /\ WF_vars(DiscoveryNext)

\* ------------------------------------------------------- concurrent calls
MaxAttempts == 3    \* calls of extractLiveStreamUrl running at once

\* Each request calls extractLiveStreamUrl on its own browser and page; the
\* calls meet only in the two debug files, whose paths are fixed. A call is
\* followed from the end of its strategies through the diagnostics block,
\* the same code as Decide, DiagHtml and DiagShot follow for a single call.
AttemptsInit ==
  /\ ServerInit
  /\ app = AppInit
  /\ wire = EmptyBag
  /\ attempts = [i \in 1..MaxAttempts |-> "decide"]
  /\ debugFiles = NoFiles

\* if (!streamUrl || streamUrl.includes(decoy)) with the candidate u of call i
AttemptDecide(i, u) ==
  /\ attempts[i] = "decide"
  /\ attempts' = [attempts EXCEPT ![i] = IF u = NoUrl \/ IsDecoy(u)
                                         THEN "diag_html" ELSE "returned"]
  /\ UNCHANGED <<debugFiles, svars, dvars, cvars>>

\* await page.content(); writeFileSync('debug-page-content.html', pageContent)
AttemptHtml(i, throws) ==
  /\ attempts[i] = "diag_html"
  /\ IF throws
     THEN attempts' = [attempts EXCEPT ![i] = "thrown"] /\ debugFiles' = debugFiles
     ELSE /\ attempts' = [attempts EXCEPT ![i] = "diag_shot"]
          /\ debugFiles' = [debugFiles EXCEPT !.html = i]
  /\ UNCHANGED <<svars, dvars, cvars>>

\* await page.screenshot({ path: 'debug-screenshot.png' }), then return or throw
AttemptShot(i, throws) ==
  /\ attempts[i] = "diag_shot"
  /\ IF throws
     THEN attempts' = [attempts EXCEPT ![i] = "thrown"] /\ debugFiles' = debugFiles
     ELSE /\ attempts' = [attempts EXCEPT ![i] = "done"]
          /\ debugFiles' = [debugFiles EXCEPT !.shot = i]
  /\ UNCHANGED <<svars, dvars, cvars>>

AttemptsNext ==
  \/ \E i \in 1..MaxAttempts, u \in {NoUrl, DecoyMp4, RealHls} : AttemptDecide(i, u)
  \/ \E i \in 1..MaxAttempts, t \in BOOLEAN : AttemptHtml(i, t)
  \/ \E i \in 1..MaxAttempts, t \in BOOLEAN : AttemptShot(i, t)

AttemptsSpec == AttemptsInit /\ [][AttemptsNext]_vars

\* ------------------------------------------------------ client and server
\* One client whose socket is connected and stays so, and a server that stays
\* up; a discovery is followed by its result only. The client then starts
\* streams over the socket and stops them over HTTP.
ClientInit ==
  /\ ServerInit
  /\ app = [AppInit EXCEPT !.connected = TRUE, !.socket = 1]
  /\ wire = EmptyBag
  /\ attempts = <<>>
  /\ debugFiles = NoFiles

ClientNext ==
  \/ Tick
  \/ \E url \in ClientUrls : startStream(url)
  \/ \E k \in BagToSet(wire) : JoinStream(k)
  \/ \E i \in 1..Len(reqs), u \in StreamUrls, m \in BOOLEAN, e \in BOOLEAN :
       JoinStreamResume(i, u, m, e)
  \/ \E i \in 1..Len(reqs) : JoinStreamCatch(i)
  \/ \E k \in BagToSet(wire) : OnStreamReady(k)
  \/ \E k \in BagToSet(wire) : OnSocketError(k)
  \/ \E v \in {"original", "transcoded"} : handleSourceChange(v)
  \/ handlePlayerError
  \/ stopStream
  \/ \E k \in BagToSet(wire) : StopStreamArrives(k)
  \/ \E k \in BagToSet(wire) : stopStreamSettled(k)
  \/ \E p \in 1..Len(procs) : ProcessEnds(p)
  \/ \E p \in 1..Len(procs) : ProcessFails(p)
  \/ \E p \in 1..Len(procs) : OnEnd(p)
  \/ \E p \in 1..Len(procs) : OnError(p)

ClientSpec == ClientInit /\ [][ClientNext]_vars

\* A client whose connection comes and goes and whose user only starts
\* streams, over the socket when it is connected and over HTTP when not.
SocketNext ==
  \/ Tick
  \/ OnConnect
  \/ OnDisconnect
  \/ \E k \in BagToSet(wire) : OnSocketDisconnect(k)
  \/ \E url \in ClientUrls : startStream(url)
  \/ \E k \in BagToSet(wire) : StartStreamArrives(k)
  \/ \E i \in 1..Len(reqs), u \in StreamUrls, m \in BOOLEAN, e \in BOOLEAN :
       StartStreamAnswer(i, u, m, e)
  \/ \E i \in 1..Len(reqs) : StartStreamRefuse(i)
  \/ \E k \in BagToSet(wire) : startStreamSettled(k)
  \/ \E k \in BagToSet(wire) : JoinStream(k)
  \/ \E i \in 1..Len(reqs), u \in StreamUrls, m \in BOOLEAN, e \in BOOLEAN :
       JoinStreamResume(i, u, m, e)
  \/ \E i \in 1..Len(reqs) : JoinStreamCatch(i)
  \/ \E k \in BagToSet(wire) : OnStreamReady(k)
  \/ \E k \in BagToSet(wire) : OnSocketError(k)
  \/ \E p \in 1..Len(procs) : ProcessEnds(p)
  \/ \E p \in 1..Len(procs) : ProcessFails(p)
  \/ \E p \in 1..Len(procs) : OnEnd(p)
  \/ \E p \in 1..Len(procs) : OnError(p)

SocketSpec == Init /\ [][SocketNext]_vars

\* what the two event loops and the network owe: a message in flight is
\* delivered, a discovery comes back, an emitted event is handled
SocketDue ==
  \/ \E k \in BagToSet(wire) : OnSocketDisconnect(k)
  \/ \E k \in BagToSet(wire) : StartStreamArrives(k)
  \/ \E i \in 1..Len(reqs), u \in StreamUrls, m \in BOOLEAN, e \in BOOLEAN :
       StartStreamAnswer(i, u, m, e)
  \/ \E k \in BagToSet(wire) : startStreamSettled(k)
  \/ \E k \in BagToSet(wire) : JoinStream(k)
  \/ \E i \in 1..Len(reqs), u \in StreamUrls, m \in BOOLEAN, e \in BOOLEAN :
       JoinStreamResume(i, u, m, e)
  \/ \E k \in BagToSet(wire) : OnStreamReady(k)
  \/ \E k \in BagToSet(wire) : OnSocketError(k)
  \/ \E p \in 1..Len(procs) : OnEnd(p)
  \/ \E p \in 1..Len(procs) : OnError(p)

SocketFairSpec == SocketSpec /\ WF_vars(SocketDue)

\* ------------------------------------------------------------------ claims
Commands == 1..Len(procs)
Registered(p) == \E sid \in DOMAIN activeLiveStreams : activeLiveStreams[sid] = p
\* the end or error listener of command p of P has run
Handled(P, p) == P[p].st # "RUNNING" /\ P[p].pending = "none"

\* C1: at most one live transcoding process exists per sessionId at any time.
C1_AtMostOneLiveProcess ==
  \A p, q \in Commands :
    (p # q /\ procs[p].sid = procs[q].sid) => ~(procs[p].st = "RUNNING" /\ procs[q].st = "RUNNING")

\* C2: whichever of stop, end or error is handled for a session, the step that
\* handles it leaves the table without an entry for that sessionId.
C2_FirstEventCleansUp ==
  [][/\ \A sid \in SessionIds : StopStream(sid) => sid \notin DOMAIN activeLiveStreams'
     /\ \A p \in 1..Len(procs') :
          (Handled(procs', p) /\ ~(p \in Commands /\ Handled(procs, p)))
            => procs'[p].sid \notin DOMAIN activeLiveStreams']_vars

\* C3: after a start, two stop requests for the id send exactly one termination
\* signal to the session's process and leave no entry: no command is ever
\* signalled twice, the command last started for an id has been signalled exactly
\* once as soon as it is out of the table, every stop leaves the id absent, and a
\* stop that follows a successful stop of the same id signals nothing.
C3_TwoStopsOneSignal ==
  /\ [](\A p \in Commands :
          /\ procs[p].signals <= 1
          /\ (p = Latest(procs, procs[p].sid) /\ ~Registered(p)) => procs[p].signals = 1)
  /\ [][\A sid \in SessionIds : StopStream(sid) =>
          /\ sid \notin DOMAIN activeLiveStreams'
          /\ (lastOp = Response("stop", sid, 200, NoResult)) => procs' = procs]_vars

\* the session was started, stopped, and stopped again
C3_Witness ==
  /\ Len(procs) = 1
  /\ ~shuttingDown
  /\ procs[1].st = "KILLED"
  /\ procs[1].signals = 1
  /\ lastOp = Response("stop", procs[1].sid, 404, NoResult)
  /\ activeLiveStreams = EmptyTable

\* C4: stop answers success exactly when the table holds the id, and then has
\* signalled the registered command once and removed the entry; otherwise it
\* answers absence and changes neither the table nor any command; a stop that
\* directly follows a stop of the same id answers absence.
C4_StopContract ==
  [][\A sid \in SessionIds : StopStream(sid) =>
       /\ lastOp'.op = "stop" /\ lastOp'.sid = sid
       /\ (lastOp'.code = 200) <=> (sid \in DOMAIN activeLiveStreams)
       /\ (lastOp'.code = 404) <=> (sid \notin DOMAIN activeLiveStreams)
       /\ sid \in DOMAIN activeLiveStreams =>
            /\ sid \notin DOMAIN activeLiveStreams'
            /\ \A x \in DOMAIN activeLiveStreams \ {sid} :
                 x \in DOMAIN activeLiveStreams' /\ activeLiveStreams'[x] = activeLiveStreams[x]
            /\ procs'[activeLiveStreams[sid]].signals = procs[activeLiveStreams[sid]].signals + 1
       /\ sid \notin DOMAIN activeLiveStreams =>
            activeLiveStreams' = activeLiveStreams /\ procs' = procs
       /\ (lastOp.op = "stop" /\ lastOp.sid = sid) => lastOp'.code = 404]_vars

\* a stop found the session, and the stop after it did not
C4_Witness ==
  /\ lastOp = Response("stop", <<0, 0>>, 404, NoResult)
  /\ Len(procs) = 1
  /\ procs[1].sid = <<0, 0>>
  /\ procs[1].st = "KILLED"
  /\ procs[1].pending = "error"
  /\ ~shuttingDown

\* C5: no end or error listener of a command runs before start has registered
\* the command: a listener only ever runs for a command of an earlier step.
C5_RegisteredBeforeAnyEvent ==
  [][\A p \in 1..Len(procs') : Handled(procs', p) => p \in Commands]_vars

\* C6: every table entry refers to a process that is running or has just
\* terminated (its end/error listener has not run yet), and a process that is
\* running has an entry under its sessionId.
C6_TableMatchesProcesses ==
  /\ \A sid \in DOMAIN activeLiveStreams :
       procs[activeLiveStreams[sid]].st = "RUNNING" \/ procs[activeLiveStreams[sid]].pending # "none"
  /\ \A p \in Commands :
       procs[p].st = "RUNNING" => procs[p].sid \in DOMAIN activeLiveStreams

\* C7: when the server process exits after SIGTERM the table is empty and no
\* transcoding process it started is left running.
C7_ShutdownCleansEverything ==
  exited => /\ activeLiveStreams = EmptyTable
            /\ \A p \in Commands : procs[p].st # "RUNNING"

\* C8: with the engine unavailable, start creates no directory, spawns nothing,
\* leaves the table alone and answers the source URL with no transcoded URL.
C8_Passthrough ==
  [][\A i \in 1..Len(reqs), u \in StreamUrls, m \in BOOLEAN, e \in BOOLEAN :
       (~ffmpegAvailable /\ StartStreamReady(i, u, m, e)) =>
         /\ outputDir' = outputDir
         /\ procs' = procs
         /\ activeLiveStreams' = activeLiveStreams
         /\ lastOp'.result = [originalUrl |-> u, transcodedUrl |-> NoUrl,
                              ffmpegAvailable |-> FALSE, error |-> FALSE]]_vars

\* a start was answered in passthrough mode
C8_Witness ==
  /\ ~ffmpegAvailable
  /\ lastOp.op = "start" /\ lastOp.code = 200
  /\ lastOp.result.originalUrl = RealHls
  /\ lastOp.result.transcodedUrl = NoUrl
  /\ procs = <<>> /\ ~outputDir

\* C9: a start result reports ffmpegAvailable=false only when the startup probe
\* found the engine unavailable.
C9_UnavailableOnlyWhenProbeFailed ==
  (lastOp.op = "start" /\ lastOp.code = 200 /\ ~lastOp.result.ffmpegAvailable)
    => ~ffmpegAvailable


\* C10: an attempt that opened a browser has closed it exactly once when its
\* outcome reaches the caller, and never closes it twice.
C10_BrowserClosedOnce ==
  /\ closes <= 1
  /\ (outcome.kind # "none" /\ browser # "none") => (browser = "closed" /\ closes = 1)
  /\ (dpc = "done") <=> (outcome.kind # "none")

\* an exit by exception after a candidate was found, with the browser closed
C10_Witness ==
  /\ outcome = Thrown("PageError")
  /\ browser = "closed"
  /\ closes = 1
  /\ streamUrl = DecoyMp4
  /\ diag = {"html"}

\* the address the caller passed, before the validation block reassigned it
GivenAddress == CHOOSE a \in Addresses : douyinUrl \in {a, NormalizeAddress(a)}

\* C11: for an address that contains neither a recognized domain nor '/live/',
\* discovery fails with the invalid-address error and no browser is launched.
C11_InvalidAddressNoBrowser ==
  (/\ dpc # "validate"
   /\ ~Recognized(GivenAddress)
   /\ ~Includes(GivenAddress, LivePath))
    => (outcome = Thrown("InvalidAddress") /\ browser = "none")

\* a candidate that is a URL and does not carry the test-video marker
NonDecoyUrl(u) == u \notin {NoUrl, NonString} /\ ~IsDecoy(u)
Delivered == dpc = "done"

\* C12: once any source has produced a non-decoy candidate, the attempt never
\* ends as the exhausted failure nor by returning a decoy.
C12_NonDecoyCandidateWins ==
  (Delivered /\ \E r \in produced : NonDecoyUrl(r.url))
    => /\ outcome # Thrown("Exhausted")
       /\ ~(outcome.kind = "return" /\ IsDecoy(outcome.url))

\* C13: when a decoy candidate was found and no strategy produced anything
\* else, the attempt returns that decoy URL instead of failing.
C13_DecoyOnlyIsReturned ==
  (/\ Delivered
   /\ produced # {}
   /\ \A r \in produced : IsDecoy(r.url))
    => (outcome.kind = "return" /\ IsDecoy(outcome.url))

\* C14: the attempt ends with the exhausted failure exactly when no strategy
\* produced a candidate, both debug files are then written before the failure;
\* a non-decoy success writes no debug file.
C14_ExhaustedIffNoCandidate ==
  /\ outcome = Thrown("Exhausted") => (produced = {} /\ diag = {"html", "shot"})
  /\ (Delivered /\ produced = {}) => outcome.kind = "throw"
  /\ (outcome.kind = "return" /\ NonDecoyUrl(outcome.url)) => diag = {}

\* positions of the call after the bucket test, the script guard, the API guard
AfterNetwork == {"cdpwait", "script", "script_eval", "api", "api_fetch", "decide",
                 "diag_html", "diag_shot"}
AfterScript == {"script_eval", "api", "api_fetch", "decide", "diag_html", "diag_shot"}
AfterApi == {"api_fetch", "decide", "diag_html", "diag_shot"}

\* C15: a decoy never ends the chain: while streamUrl holds a decoy the
\* buckets, the custom script and the API query are each started, in that order,
\* and a decoy is returned only if none of the three yielded a non-decoy URL.
C15_DecoyDoesNotShortCircuit ==
  /\ (IsDecoy(streamUrl) /\ dpc \in AfterNetwork) => "buckets" \in tried
  /\ (IsDecoy(streamUrl) /\ dpc \in AfterScript) => "script" \in tried
  /\ (IsDecoy(streamUrl) /\ dpc \in AfterApi) => "api" \in tried
  /\ "api" \in tried => "script" \in tried
  /\ "script" \in tried => "buckets" \in tried
  /\ (outcome.kind = "return" /\ IsDecoy(outcome.url))
       => /\ {"buckets", "script", "api"} \subseteq tried
          /\ ~\E r \in produced : r.src \in {"buckets", "script", "api"} /\ NonDecoyUrl(r.url)

C15_Witness ==
  /\ outcome = Returned(DecoyMp4)
  /\ [src |-> "dom", url |-> DecoyMp4] \in produced
  /\ {"buckets", "script", "api"} \subseteq tried
  /\ HasRoomId(douyinUrl)

\* C16: a strategy is started only while no earlier strategy has produced a
\* non-decoy candidate; a non-decoy URL from DOM extraction is returned as it is
\* and neither the buckets, the CDP session, the script nor the API is started.
C16_StrictFallback ==
  /\ [][\A st \in {"buckets", "cdp", "script", "api"} :
          (st \in tried' /\ st \notin tried) => ~\E r \in produced : NonDecoyUrl(r.url)]_vars
  /\ [](\A r \in produced :
          (Delivered /\ r.src = "dom" /\ NonDecoyUrl(r.url))
            => (outcome = Returned(r.url) /\ tried = {"dom"}))

C16_Witness ==
  /\ outcome = Returned(RealHls)
  /\ produced = {[src |-> "dom", url |-> RealHls]}
  /\ tried = {"dom"}
  /\ Len(liveStreamRequests) > 0
  /\ HasRoomId(douyinUrl)

C18_StrategyExceptionsSwallowed == outcome.error # "CdpFailed"

\* C19: a navigation timeout fails the attempt: no strategy runs, there is no
\* second navigation, the browser is closed, the handler answers 500 and no
\* ffmpeg command or table entry is created; the attempt never restarts.
C19_NavigationTimeoutIsFatal ==
  /\ [][Goto(TRUE) => (completion' = Thrown("NavigationTimeout") /\ dpc' = "finally")]_vars
  /\ [][completion = Thrown("NavigationTimeout") => dpc' \in {"finally", "done"}]_vars
  /\ [][(dpc' = "goto" => dpc \in {"setup", "goto"}) /\ (dpc = "done" => dpc' = "done")]_vars
  /\ [](outcome = Thrown("NavigationTimeout")
          => /\ tried = {} /\ produced = {} /\ browser = "closed"
             /\ procs = <<>> /\ activeLiveStreams = EmptyTable
             /\ reqs[1] = Answered => lastOp = Response("start", <<0, 0>>, 500, NoResult))

C19_Witness ==
  /\ outcome = Thrown("NavigationTimeout")
  /\ reqs[1] = Answered
  /\ lastOp.code = 500
  /\ procs = <<>>

\* C20: every attempt eventually settles with its browser released, also when
\* a page operation never reports completion.
C20_EventuallyReleased == <>(Delivered /\ browser # "open")

\* C23: the play/consent clicks, the settle wait and the second simulator run
\* start only after DOM extraction was attempted without a non-decoy result,
\* and DOM extraction is the step that follows the first simulator run.
C23_InteractionAfterDom ==
  /\ [][(dpc' \in {"click", "settle"} /\ dpc' # dpc)
         => ("dom" \in tried /\ ~\E r \in produced : NonDecoyUrl(r.url))]_vars
  /\ [][(dpc = "simulate" /\ dpc' \notin {"simulate", "finally", "hung"}) => dpc' = "dom"]_vars

\* C24: each request bucket holds at most N entries, however many matching
\* requests the page issues.
C24_BucketsBounded ==
  /\ Len(liveStreamRequests) <= BucketBound
  /\ Len(mediaRequests) <= BucketBound

\* C25: no bucket entry carries the test-video marker, every entry of
\* liveStreamRequests has a .m3u8 or .flv extension, every entry of mediaRequests
\* matched a media-like pattern without such an extension, and a bucket only
\* changes by a new entry being put after the ones it holds.
C25_BucketContents ==
  /\ [](\A u \in {liveStreamRequests[i] : i \in 1..Len(liveStreamRequests)} :
          /\ ~Includes(u, DecoyMarker)
          /\ (Includes(u, <<".m3u8">>) \/ Includes(u, <<".flv">>)))
  /\ [](\A u \in {mediaRequests[i] : i \in 1..Len(mediaRequests)} :
          /\ ~Includes(u, DecoyMarker)
          /\ ~Includes(u, <<".m3u8">>)
          /\ ~Includes(u, <<".flv">>)
          /\ (\/ Includes(u, <<".mp4">>)
              \/ Includes(u, StreamPath)
              \/ Includes(u, LivePath)
              \/ Includes(u, PlayPath)))
  /\ [][(liveStreamRequests' # liveStreamRequests)
          => \E u \in NetUrls : liveStreamRequests' = liveStreamRequests \o <<u>>]_vars
  /\ [][(mediaRequests' # mediaRequests)
          => \E u \in NetUrls : mediaRequests' = mediaRequests \o <<u>>]_vars

C25_Witness ==
  /\ seen = MaxNetReqs
  /\ Len(liveStreamRequests) = 1
  /\ mediaRequests = <<PlayMp4>>
  /\ dpc = "goto"

\* C26: DOM extraction never yields a value with the test-video marker: what
\* it assigns to streamUrl is nothing or a non-decoy URL string.
C26_DomNeverDecoy == \A r \in produced : r.src = "dom" => NonDecoyUrl(r.url)

\* C27: the API step is skipped without error when the address holds no room
\* id, and leaves streamUrl as it was when the fetch fails, throws, or the body
\* lacks the stream fields; a decoy it yields is only ever returned as a decoy,
\* after the debug capture.
C27_ApiFailsSoft ==
  /\ [][(dpc = "api" /\ dpc' # "api" /\ ~HasRoomId(douyinUrl))
          => (streamUrl' = streamUrl /\ dpc' = "decide" /\ completion' = completion)]_vars
  /\ [][\A resp \in Responses, t \in BOOLEAN :
          (ApiQuery(ApiValue(resp), t)
           /\ (t \/ resp.error \/ ~resp.room \/ (resp.flv_url = NoUrl /\ resp.hls_url = NoUrl)))
            => (streamUrl' = streamUrl /\ dpc' = "decide" /\ completion' = completion)]_vars
  /\ []((outcome.kind = "return" /\ IsDecoy(outcome.url)) => diag = {"html", "shot"})

C27_Witness ==
  /\ dpc = "decide"
  /\ "api" \in tried
  /\ HasRoomId(douyinUrl)
  /\ streamUrl = DecoyMp4
  /\ produced = {[src |-> "dom", url |-> DecoyMp4]}

\* C28: once the process of a registered command has ended or failed, its
\* table entry is eventually removed (or the server process has exited).
C28_TerminatedEntryRemoved ==
  \A p \in 1..MaxReqs :
    [](( /\ p \in Commands
         /\ Registered(p)
         /\ procs[p].st \in {"ENDED", "FAILED"})
        => <>(exited \/ ~(p \in Commands /\ Registered(p))))

\* C29: the status query answers "in progress" (200) exactly when the table
\* holds an entry for the id at that moment, and "not found" (404) otherwise.
C29_StatusFollowsTable ==
  [][\A sid \in SessionIds :
       StatusQuery(sid) =>
         /\ lastOp'.code \in {200, 404}
         /\ lastOp'.code = 200 <=> sid \in DOMAIN activeLiveStreams]_vars

\* a session whose process ended and was cleaned up is reported as not found
C29_Witness ==
  /\ lastOp.op = "status"
  /\ lastOp.code = 404
  /\ \E p \in Commands : procs[p].sid = lastOp.sid /\ Handled(procs, p)

\* C22: when the stop the user pressed is settled, the client's stream state
\* (active, original and transcoded URL, sessionId) is cleared, whatever the
\* server answered.
C22_StopClearsClient ==
  [][\A k \in BagToSet(wire) : stopStreamSettled(k) => Cleared(app')]_vars

\* the URL of the source the client has selected
SelectedUrl ==
  IF app.streamSource = "original" THEN app.originalStreamUrl ELSE app.transcodedStreamUrl

\* C30: while the client knows the engine to be unavailable the selected source
\* is 'original', and an active URL is the URL of the selected source.
C30_SourceConsistent ==
  /\ app.streamSource \in {"original", "transcoded"}
  /\ ~app.ffmpegAvailable => app.streamSource = "original"
  /\ app.activeStreamUrl # NoUrl => app.activeStreamUrl = SelectedUrl

\* the transcoded source is playing
C30_Witness ==
  /\ app.ffmpegAvailable
  /\ app.streamSource = "transcoded"
  /\ app.activeStreamUrl # NoUrl
  /\ app.activeStreamUrl = app.transcodedStreamUrl

\* the call returned through `return streamUrl` of the diagnostics block, which
\* follows the screenshot
ViaDecoyPath == outcome.kind = "return" /\ "shot" \in diag

\* C21: the decoy predicate holds for the marker URL and not for the stream
\* URL, and once the client has the result it shows the test-video flag exactly
\* when discovery returned through the decoy-only path.
C21_DecoyFlagged ==
  /\ IsDecoy(DecoyMp4)
  /\ ~IsDecoy(RealHls)
  /\ \A u \in NetUrls : IsDecoy(u) <=> u = DecoyMp4
  /\ app.originalStreamUrl # NoUrl => (app.isTestVideo <=> ViaDecoyPath)

\* the client shows a decoy-only result
C21_Witness ==
  /\ app.originalStreamUrl = DecoyMp4
  /\ app.isTestVideo
  /\ ViaDecoyPath

\* C31: the end or error listener of a command signals and unregisters that
\* command only: no other command receives a signal or loses its table entry.
C31_CallbackTouchesOwnProcess ==
  [][\A p \in Commands :
       (OnEnd(p) \/ OnError(p)) =>
         \A q \in Commands \ {p} :
           /\ procs'[q].signals = procs[q].signals
           /\ Registered(q) =>
                \E sid \in DOMAIN activeLiveStreams' : activeLiveStreams'[sid] = q]_vars

\* s begins with pre
StartsWith(s, pre) == Len(s) >= Len(pre) /\ \A j \in 1..Len(pre) : s[j] = pre[j]

\* the address carries an explicit http or https scheme
HasScheme(url) == StartsWith(url, Https) \/ StartsWith(url, <<"http", ":", "/", "/">>)

\* C33: the address handed to page.goto starts with a scheme, and an address
\* on a recognized domain is accepted with or without a '/live/' segment.
C33_NavigationHasScheme ==
  /\ \A a \in Addresses : Recognized(a) => ~AddressRejected(a)
  /\ dpc = "goto" => HasScheme(douyinUrl)

\* C32: when a call has finished its diagnostics, the HTML snapshot and the
\* screenshot on disk both come from that call's own page.
C32_DiagnosticsFromOwnPage ==
  [][\A i \in 1..MaxAttempts :
       AttemptShot(i, FALSE) => (debugFiles'.html = i /\ debugFiles'.shot = i)]_vars

\* a transcode session of connection k is alive: in the table, or its process runs
SessionOf(k) ==
  \/ \E sid \in DOMAIN activeLiveStreams : sid[2] = k
  \/ \E p \in Commands : procs[p].sid[2] = k /\ procs[p].st = "RUNNING"

\* C34: after the client's connection k has dropped, every session started for
\* it is eventually signalled and unregistered.
C34_SessionEndsWithClient ==
  \A k \in 1..MaxSockets :
    []((app.socket = k /\ ~app.connected) => <>(~SessionOf(k)))

\* C35: after startStream has set the loading flag, the flag eventually
\* becomes false again.
C35_LoadingEnds == [](app.loading => <>(~app.loading))

====
